---- MODULE Spec2Model ----
(***************************************************************************)
(* Task Management API: the in-memory task store, the validation           *)
(* middleware in front of it and the controllers behind the task routes.   *)
(*                                                                         *)
(* Node runs each request's middleware chain (validateTaskId,              *)
(* validate*Task, controller) synchronously, so one request is one step.   *)
(*                                                                         *)
(* JSON values are tagged records: Absent is a key that is not in the      *)
(* body (undefined after destructuring), Null is JSON null, text is a      *)
(* sequence of one-character strings, an enumeration word is a string, a   *)
(* date is a number of clock ticks since the epoch.                        *)
(***************************************************************************)
EXTENDS Integers, Sequences, FiniteSets, TLC

\* ---------------------------------------------------------------- bounds
\* UUIDs the generator may hand out in one run.
MaxIds == 2
\* Clock ticks that may pass in one run.
MaxTicks == 1
\* Requests handled in one run.
MaxReqs == 3
\* Requests the server has received and not yet answered, at one time.
MaxInFlight == 2
\* Scale of the clock: ticks in a calendar day, days in a year.
TicksPerDay == 2
DaysPerYear == 1

\* ------------------------------------------------------ program constants
TitleMinLen == 3
TitleMaxLen == 100
DescriptionMaxLen == 500
DueDateMaxYears == 10
UuidVersion == 4

\* ------------------------------------------------------------ JSON values
Absent == [t |-> "undefined"]
Null == [t |-> "null"]
Text(chars) == [t |-> "string", s |-> chars]
Word(w) == [t |-> "string", w |-> w]
Num(n) == [t |-> "number", n |-> n]
DateAt(d) == [t |-> "date", d |-> d]
\* A string that Date parses to the instant d.
DateStr(d) == [t |-> "string", iso |-> d]
\* The Invalid Date.
InvalidDate == [t |-> "date", nan |-> TRUE]
\* The text of a UUID: its version nibble and the rest of it.
Uuid(ver, n) == [t |-> "string", ver |-> ver, n |-> n]

IsText(v) == v.t = "string" /\ DOMAIN v = {"t", "s"}
IsWord(v) == v.t = "string" /\ DOMAIN v = {"t", "w"}
IsDateStr(v) == v.t = "string" /\ DOMAIN v = {"t", "iso"}
IsUuid(v) == v.t = "string" /\ DOMAIN v = {"t", "ver", "n"}
IsDate(v) == v.t = "date" /\ DOMAIN v = {"t", "d"}

\* TaskStatus and TaskPriority
TaskStatus == {"pending", "in-progress", "completed", "blocked"}
TaskPriority == {"low", "medium", "high", "critical"}
PENDING == Word("pending")
MEDIUM == Word("medium")

\* ------------------------------------------------------------------ text
IsSpace(c) == c = " "

RECURSIVE TrimStart(_)
TrimStart(s) ==
    IF s = <<>> THEN <<>>
    ELSE IF IsSpace(Head(s)) THEN TrimStart(Tail(s)) ELSE s

RECURSIVE TrimEnd(_)
TrimEnd(s) ==
    IF s = <<>> THEN <<>>
    ELSE IF IsSpace(s[Len(s)]) THEN TrimEnd(SubSeq(s, 1, Len(s) - 1)) ELSE s

\* String.prototype.trim
Trim(s) == TrimEnd(TrimStart(s))

\* sanitize-html's escapeHtml of one character
EscapeChar(c) ==
    CASE c = "&" -> <<"&", "a", "m", "p", ";">>
      [] c = "<" -> <<"&", "l", "t", ";">>
      [] c = ">" -> <<"&", "g", "t", ";">>
      [] c = "\"" -> <<"&", "q", "u", "o", "t", ";">>
      [] OTHER -> <<c>>

RECURSIVE EscapeHtml(_)
EscapeHtml(s) ==
    IF s = <<>> THEN <<>> ELSE EscapeChar(Head(s)) \o EscapeHtml(Tail(s))

\* sanitizeText that trims and escapes nothing
sanitizeText_trimOnly(v) ==
    IF v = Null THEN Text(<<>>) ELSE Text(Trim(v.s))

\* sanitizeText: sanitizeHtml with no allowed tag and disallowedTagsMode
\* 'recursiveEscape' writes every tag of the text escaped and escapes the
\* text between the tags (for text whose tags are closed and carry no
\* attribute, which is all the text this model feeds it); sanitizeHtml
\* answers '' for null. Then trim.
sanitizeText(v) ==
    IF v = Null THEN Text(<<>>) ELSE Text(Trim(EscapeHtml(v.s)))

\* ----------------------------------------------------------------- dates
TicksPerYear == TicksPerDay * DaysPerYear

\* Date.setHours(0, 0, 0, 0)
StartOfDay(d) == d - (d % TicksPerDay)

\* new Date(v) for the values a dueDate can have
NewDate(v) ==
    CASE v = Null -> DateAt(0)
      [] IsDate(v) -> v
      [] IsDateStr(v) -> DateAt(v.iso)
      [] v.t = "number" -> DateAt(v.n)
      [] OTHER -> InvalidDate

\* ------------------------------------------------------- field validators
\* Each answers the sequence of its errors: one error or none.
Err(field, message) == <<[field |-> field, message |-> message]>>

validateTitle(title) ==
    IF title = Absent \/ title = Null THEN Err("title", "Title is required")
    ELSE IF ~IsText(title) THEN Err("title", "Title must be a string")
    ELSE IF Len(Trim(title.s)) < TitleMinLen
        THEN Err("title", "Title must be at least 3 characters long")
    ELSE IF Len(Trim(title.s)) > TitleMaxLen
        THEN Err("title", "Title must not exceed 100 characters")
    ELSE <<>>

validateDescription(description) ==
    IF description = Absent \/ description = Null THEN <<>>
    ELSE IF ~IsText(description)
        THEN Err("description", "Description must be a string")
    ELSE IF Len(description.s) > DescriptionMaxLen
        THEN Err("description", "Description must not exceed 500 characters")
    ELSE <<>>

validateStatus(status) ==
    IF status = Absent \/ status = Null THEN <<>>
    ELSE IF ~(IsWord(status) /\ status.w \in TaskStatus)
        THEN Err("status", "Status must be one of: pending, in-progress, completed, blocked")
    ELSE <<>>

validatePriority(priority) ==
    IF priority = Absent \/ priority = Null THEN <<>>
    ELSE IF ~(IsWord(priority) /\ priority.w \in TaskPriority)
        THEN Err("priority", "Priority must be one of: low, medium, high, critical")
    ELSE <<>>

\* validateDueDate comparing the instants, not their days
validateDueDate_byInstant(dueDate, now) ==
    IF dueDate = Absent \/ dueDate = Null THEN <<>>
    ELSE IF ~IsDate(NewDate(dueDate))
        THEN Err("dueDate", "Due date must be a valid date")
    ELSE IF NewDate(dueDate).d < now
        THEN Err("dueDate", "Due date must be today or in the future")
    ELSE IF NewDate(dueDate).d > now + DueDateMaxYears * TicksPerYear
        THEN Err("dueDate", "Due date must not be more than 10 years in the future")
    ELSE <<>>

validateDueDate(dueDate, now) ==
    IF dueDate = Absent \/ dueDate = Null THEN <<>>
    ELSE IF ~IsDate(NewDate(dueDate))
        THEN Err("dueDate", "Due date must be a valid date")
    ELSE IF StartOfDay(NewDate(dueDate).d) < StartOfDay(now)
        THEN Err("dueDate", "Due date must be today or in the future")
    ELSE IF NewDate(dueDate).d > now + DueDateMaxYears * TicksPerYear
        THEN Err("dueDate", "Due date must not be more than 10 years in the future")
    ELSE <<>>

\* validateTaskId with a test that takes a UUID of any version
validateTaskIdErrors_anyVersion(id) ==
    IF id = Absent \/ id = Null \/ id.t # "string" THEN Err("id", "Task ID is required")
    ELSE IF ~IsUuid(id)
        THEN Err("id", "Invalid task ID format (must be a valid UUID v4)")
    ELSE <<>>

\* The uuidRegex test of validateTaskId.
validateTaskIdErrors(id) ==
    IF id = Absent \/ id = Null \/ id.t # "string" THEN Err("id", "Task ID is required")
    ELSE IF ~(IsUuid(id) /\ id.ver = UuidVersion)
        THEN Err("id", "Invalid task ID format (must be a valid UUID v4)")
    ELSE <<>>

\* ------------------------------------------------------ validation aggregators
\* if (errors.length > 0) throw new ValidationError(errors)
HasErrors_never(errors) == FALSE

HasErrors(errors) == Len(errors) > 0

\* JavaScript's truthiness, for the values a body field can have.
Truthy(v) ==
    /\ v # Absent
    /\ v # Null
    /\ ~(IsText(v) /\ v.s = <<>>)
    /\ ~(v.t = "number" /\ v.n = 0)

\* validateCreateTask throwing at the first error it finds
validateCreateTaskErrors_failFast(body, now) ==
    LET errors == validateTitle(body.title) \o validateDescription(body.description)
                    \o validateStatus(body.status) \o validatePriority(body.priority)
                    \o validateDueDate(body.dueDate, now)
    IN IF errors = <<>> THEN <<>> ELSE <<errors[1]>>

\* validateCreateTask: the errors it collects
validateCreateTaskErrors(body, now) ==
    validateTitle(body.title) \o validateDescription(body.description)
      \o validateStatus(body.status) \o validatePriority(body.priority)
      \o validateDueDate(body.dueDate, now)

\* validateCreateTask: req.body as it leaves the middleware when no error was found
validateCreateTaskBody(body) ==
    [body EXCEPT
       !.title = IF Truthy(@) THEN sanitizeText(@) ELSE @,
       !.description = IF Truthy(@) THEN sanitizeText(@) ELSE @,
       !.dueDate = IF Truthy(@) THEN NewDate(@) ELSE @]

BodyFieldMissing ==
    Err("body", "At least one field (title, description, status, priority, or dueDate) must be provided for update")

\* validateUpdateTask running every validator, as validateCreateTask does
validateUpdateTaskErrors_asCreate(body, now) ==
    IF /\ body.title = Absent
       /\ body.description = Absent
       /\ body.status = Absent
       /\ body.priority = Absent
       /\ body.dueDate = Absent
    THEN BodyFieldMissing
    ELSE validateTitle(body.title) \o validateDescription(body.description)
      \o validateStatus(body.status) \o validatePriority(body.priority)
      \o validateDueDate(body.dueDate, now)

\* validateUpdateTask without its test for a body that carries no field
validateUpdateTaskErrors_noBodyCheck(body, now) ==
    (IF body.title # Absent THEN validateTitle(body.title) ELSE <<>>)
      \o (IF body.description # Absent THEN validateDescription(body.description) ELSE <<>>)
      \o (IF body.status # Absent THEN validateStatus(body.status) ELSE <<>>)
      \o (IF body.priority # Absent THEN validatePriority(body.priority) ELSE <<>>)
      \o (IF body.dueDate # Absent THEN validateDueDate(body.dueDate, now) ELSE <<>>)

\* validateUpdateTask: the errors it collects
validateUpdateTaskErrors(body, now) ==
    IF /\ body.title = Absent
       /\ body.description = Absent
       /\ body.status = Absent
       /\ body.priority = Absent
       /\ body.dueDate = Absent
    THEN BodyFieldMissing
    ELSE (IF body.title # Absent THEN validateTitle(body.title) ELSE <<>>)
      \o (IF body.description # Absent THEN validateDescription(body.description) ELSE <<>>)
      \o (IF body.status # Absent THEN validateStatus(body.status) ELSE <<>>)
      \o (IF body.priority # Absent THEN validatePriority(body.priority) ELSE <<>>)
      \o (IF body.dueDate # Absent THEN validateDueDate(body.dueDate, now) ELSE <<>>)

\* validateUpdateTask: req.body as it leaves the middleware when no error was found
validateUpdateTaskBody(body) ==
    [body EXCEPT
       !.title = IF @ # Absent THEN sanitizeText(@) ELSE @,
       !.description = IF @ # Absent THEN sanitizeText(@) ELSE @,
       !.dueDate = IF @ # Absent THEN NewDate(@) ELSE @]

\* ------------------------------------------------------------ the inputs
yesterday == TicksPerDay - 1
today == TicksPerDay
\* The clock when the server starts: the last tick of the day after the epoch.
StartClock == 2 * TicksPerDay - 1
MaxClock == StartClock + MaxTicks
TenYears == DueDateMaxYears * TicksPerYear

Plain == Text(<<"a", "b", "c">>)
Markup == Text(<<" ", "<", "i", ">", "x", "<", "/", "i", ">">>)
Note == Text(<<"o", "k", " ">>)

\* The keys a request body can carry: the fields of the DTOs, and two keys
\* of a Task that are no field of the DTOs.
BodyKeys == {"title", "description", "status", "priority", "dueDate", "id", "createdAt"}

\* The body that carries the keys of the record given, and no other.
Body(given) == [ f \in BodyKeys |-> IF f \in DOMAIN given THEN given[f] ELSE Absent ]

Present(body) == { f \in DOMAIN body : body[f] # Absent }

Bodies ==
    { \* valid for a create and for an update
      Body([title |-> Plain]),
      Body([title |-> Markup, description |-> Note, status |-> Word("completed"),
            priority |-> Word("high"), dueDate |-> DateStr(today)]),
      Body([title |-> Plain, description |-> Null, status |-> Null,
            priority |-> Null, dueDate |-> Null]),
      Body([title |-> Plain, dueDate |-> DateStr(StartClock + TenYears)]),
      \* valid for an update
      Body([status |-> Word("completed")]),
      Body([priority |-> Word("high"), description |-> Note]),
      Body([dueDate |-> DateStr(today)]),
      Body([status |-> Null]),
      Body([priority |-> Null]),
      Body([dueDate |-> Null]),
      Body([status |-> Word("blocked"), id |-> Text(<<"x">>)]),
      Body([priority |-> Word("low"), createdAt |-> DateStr(MaxClock + 1)]),
      \* invalid
      Body(<< >>),
      Body([title |-> Text(<<"a", "b">>), status |-> Word("bogus")]),
      Body([priority |-> Word("bogus"), dueDate |-> DateStr(yesterday)]),
      Body([title |-> Plain, dueDate |-> DateStr(StartClock + TenYears + 1)]),
      Body([id |-> Text(<<"x">>)]) }

\* The ids of the path: the UUIDs the store can hold and one that is no UUID v4.
PathIds == { Uuid(UuidVersion, n) : n \in 1..MaxIds } \cup { Uuid(1, 1) }

\* ------------------------------------------------------------- the state
VARIABLES
    tasks,      \* TaskStore.tasks: the Map from id to Task
    clock,      \* the system clock new Date() reads
    created,    \* what createTask returned, in order: [id, createdAt] (history)
    deleted,    \* the ids deleteTask removed (history)
    reqs,       \* the number of requests handled
    last,       \* the last request, the errors its validators collected and
                \* its response
    handlers    \* the requests received and not yet answered: for each
                \* connection, how far its middleware chain has run

vars == <<tasks, clock, created, deleted, reqs, last, handlers>>

\* The connections requests arrive on.
Slots == 1..MaxInFlight

\* A connection with no request on it.
IdleHandler ==
    [ pc |-> "idle", op |-> "none", id |-> Null, raw |-> Absent, body |-> Absent,
      existing |-> Null, begun |-> << >> ]

\* ------------------------------------------------------------ TaskStore
\* A generator that numbers the tasks the store holds.
randomUUID_fromSize == Uuid(UuidVersion, Cardinality(DOMAIN tasks) + 1)

\* A generator of version 1 UUIDs.
randomUUID_v1 == Uuid(1, Len(created) + 1)

\* crypto.randomUUID: a version 4 UUID that was never generated before
randomUUID == Uuid(UuidVersion, Len(created) + 1)

\* createTask without the defaults of status and priority
createTask_noDefault(taskData, now, later) ==
    [ id |-> randomUUID,
      title |-> taskData.title,
      description |-> taskData.description,
      status |-> taskData.status,
      priority |-> taskData.priority,
      dueDate |-> IF Truthy(taskData.dueDate) THEN NewDate(taskData.dueDate) ELSE Absent,
      createdAt |-> DateAt(now),
      updatedAt |-> DateAt(later) ]

\* TaskStore.createTask: the new task. createdAt and updatedAt are two calls
\* of new Date(): now is what the first reads, later what the second reads.
createTask(taskData, now, later) ==
    [ id |-> randomUUID,
      title |-> taskData.title,
      description |-> taskData.description,
      status |-> IF Truthy(taskData.status) THEN taskData.status ELSE PENDING,
      priority |-> IF Truthy(taskData.priority) THEN taskData.priority ELSE MEDIUM,
      dueDate |-> IF Truthy(taskData.dueDate) THEN NewDate(taskData.dueDate) ELSE Absent,
      createdAt |-> DateAt(now),
      updatedAt |-> DateAt(later) ]

\* { ...existingTask, ...taskData }: every key of taskData replaces the task's
Spread(existingTask, taskData) ==
    [ f \in DOMAIN existingTask |->
        IF f \in DOMAIN taskData /\ taskData[f] # Absent
        THEN taskData[f] ELSE existingTask[f] ]

\* updateTask with createTask's dueDate line: no dueDate in the body, none stored
updateTask_dropsDueDate(existingTask, taskData, now) ==
    [ Spread(existingTask, taskData) EXCEPT
        !.dueDate = IF Truthy(taskData.dueDate) THEN NewDate(taskData.dueDate) ELSE Absent,
        !.updatedAt = DateAt(now) ]

\* updateTask without the updatedAt line
updateTask_keepsStamp(existingTask, taskData, now) ==
    [ Spread(existingTask, taskData) EXCEPT
        !.dueDate = IF taskData.dueDate # Absent
                    THEN NewDate(taskData.dueDate) ELSE existingTask.dueDate ]

\* TaskStore.updateTask: the updated task, for an id the store holds
updateTask(existingTask, taskData, now) ==
    [ Spread(existingTask, taskData) EXCEPT
        !.dueDate = IF taskData.dueDate # Absent
                    THEN NewDate(taskData.dueDate) ELSE existingTask.dueDate,
        !.updatedAt = DateAt(now) ]

\* A set that, when it replaces an entry, keeps no other.
MapSet_alone(map, key, value) ==
    [ k \in (IF key \in DOMAIN map THEN {key} ELSE DOMAIN map \cup {key}) |->
        IF k = key THEN value ELSE map[k] ]

\* Map.set
MapSet(map, key, value) ==
    [ k \in DOMAIN map \cup {key} |-> IF k = key THEN value ELSE map[k] ]

\* A delete that answers true whatever the map holds.
MapDeleted_always(map, key) == TRUE

\* What Map.delete returns: whether the key was in the map
MapDeleted(map, key) == key \in DOMAIN map

\* A delete that removes nothing.
MapDelete_keeps(map, key) == map

\* Map.delete
MapDelete(map, key) == [ k \in DOMAIN map \ {key} |-> map[k] ]

\* ------------------------------------------------------------- responses
Response(op, id, status, errors, body, data) ==
    [ op |-> op, id |-> id, status |-> status, errors |-> errors,
      body |-> body, data |-> data ]

\* errorHandler for a ValidationError: 400 and the errors
ValidationFailed(op, id, errors) == Response(op, id, 400, errors, Absent, Null)

\* `Task with ID '${id}' not found`
NotFoundMessage(id) ==
    [ message |-> <<Word("Task with ID '"), id, Word("' not found")>> ]

\* a 404 whose message does not name the id
NotFound_noId(op, id) ==
    Response(op, id, 404, <<>>, Absent, [ message |-> <<Word("Task not found")>> ])

\* the controllers' 404
NotFound(op, id) == Response(op, id, 404, <<>>, Absent, NotFoundMessage(id))

\* ---------------------------------------------------------- errorHandler
\* An Error object: its message, statusCode, errors and stack (Absent when
\* it has none).
ErrorObject(message, statusCode, errors, stack) ==
    [ message |-> message, statusCode |-> statusCode, errors |-> errors,
      stack |-> stack ]

Array(a) == [t |-> "array", a |-> a]

\* new ValidationError(errors)
ValidationError(errors) ==
    ErrorObject(Word("Validation failed"), Num(400), Array(errors),
                Word("ValidationError: Validation failed at ..."))

\* errorHandler: the status and the JSON body of the response
errorHandler(err) ==
    LET statusCode == IF Truthy(err.statusCode) THEN err.statusCode.n ELSE 500
        message == IF Truthy(err.message) /\ err.message # Word("")
                   THEN err.message.w ELSE "Internal Server Error"
    IN IF err.errors # Absent /\ err.errors.t = "array" /\ Len(err.errors.a) > 0
       THEN [ status |-> statusCode,
              json |-> [ success |-> FALSE, message |-> "Validation failed",
                         errors |-> err.errors.a ] ]
       ELSE [ status |-> statusCode,
              json |-> [ error |-> [ message |-> message, statusCode |-> statusCode ] ] ]

Init ==
    /\ tasks = << >>
    /\ clock = StartClock
    /\ created = << >>
    /\ deleted = {}
    /\ reqs = 0
    /\ last = Response("none", Null, 0, <<>>, Absent, Null)
    /\ handlers = [ r \in Slots |-> IdleHandler ]

\* ------------------------------------------------------------ the routes
\* POST /api/tasks: validateCreateTask, createTask
PostTask(body) ==
    /\ reqs < MaxReqs
    /\ reqs' = reqs + 1
    /\ UNCHANGED <<deleted, handlers>>
    /\ IF HasErrors(validateCreateTaskErrors(body, clock))
       THEN /\ last' = ValidationFailed("create", Null, validateCreateTaskErrors(body, clock))
            /\ UNCHANGED <<tasks, clock, created>>
       ELSE /\ Len(created) < MaxIds
            /\ \E later \in clock..MaxClock :
               LET newTask == createTask(validateCreateTaskBody(body), clock, later)
               IN /\ clock' = later
                  /\ tasks' = MapSet(tasks, newTask.id, newTask)
                  /\ created' = Append(created, [id |-> newTask.id, createdAt |-> newTask.createdAt])
                  /\ last' = Response("create", Null, 201,
                                       validateCreateTaskErrors(body, clock), body, newTask)

\* PUT /api/tasks/:id: validateTaskId, validateUpdateTask, updateTask
PutTask(id, body) ==
    /\ reqs < MaxReqs
    /\ reqs' = reqs + 1
    /\ UNCHANGED <<clock, created, deleted, handlers>>
    /\ IF validateTaskIdErrors(id) # <<>>
       THEN /\ last' = ValidationFailed("update", id, validateTaskIdErrors(id))
            /\ UNCHANGED tasks
       ELSE IF HasErrors(validateUpdateTaskErrors(body, clock))
       THEN /\ last' = ValidationFailed("update", id, validateUpdateTaskErrors(body, clock))
            /\ UNCHANGED tasks
       ELSE IF id \notin DOMAIN tasks
       THEN /\ last' = [NotFound("update", id) EXCEPT
                                !.errors = validateUpdateTaskErrors(body, clock)]
            /\ UNCHANGED tasks
       ELSE LET updatedTask == updateTask(tasks[id], validateUpdateTaskBody(body), clock)
            IN /\ tasks' = MapSet(tasks, id, updatedTask)
               /\ last' = Response("update", id, 200,
                                    validateUpdateTaskErrors(body, clock), body, updatedTask)

\* GET /api/tasks/:id: validateTaskId, getTaskById
GetTask(id) ==
    /\ reqs < MaxReqs
    /\ reqs' = reqs + 1
    /\ UNCHANGED <<tasks, clock, created, deleted, handlers>>
    /\ last' = IF validateTaskIdErrors(id) # <<>>
               THEN ValidationFailed("get", id, validateTaskIdErrors(id))
               ELSE IF id \notin DOMAIN tasks THEN NotFound("get", id)
               ELSE Response("get", id, 200, <<>>, Absent, tasks[id])

\* GET /api/tasks: getAllTasks
GetAllTasks ==
    /\ reqs < MaxReqs
    /\ reqs' = reqs + 1
    /\ UNCHANGED <<tasks, clock, created, deleted, handlers>>
    /\ last' = Response("getAll", Null, 200, <<>>, Absent, Cardinality(DOMAIN tasks))

\* DELETE /api/tasks/:id: validateTaskId, deleteTask
DeleteTask(id) ==
    /\ reqs < MaxReqs
    /\ reqs' = reqs + 1
    /\ UNCHANGED <<clock, created, handlers>>
    /\ IF validateTaskIdErrors(id) # <<>>
       THEN /\ last' = ValidationFailed("delete", id, validateTaskIdErrors(id))
            /\ UNCHANGED <<tasks, deleted>>
       ELSE IF ~MapDeleted(tasks, id)
       THEN /\ last' = NotFound("delete", id)
            /\ UNCHANGED <<tasks, deleted>>
       ELSE /\ tasks' = MapDelete(tasks, id)
            /\ deleted' = deleted \cup {id}
            /\ last' = Response("delete", id, 200, <<>>, Absent, Null)

\* TaskStore.clearAll, which the test harness calls
ClearAll ==
    /\ reqs < MaxReqs
    /\ reqs' = reqs + 1
    /\ tasks' = << >>
    /\ last' = Response("clear", Null, 0, <<>>, Absent, Null)
    /\ UNCHANGED <<clock, created, deleted, handlers>>

\* The clock advances between requests.
Tick ==
    /\ clock < MaxClock
    /\ clock' = clock + 1
    /\ UNCHANGED <<tasks, created, deleted, reqs, last, handlers>>

Next ==
    \/ \E body \in Bodies : PostTask(body)
    \/ \E id \in PathIds, body \in Bodies : PutTask(id, body)
    \/ \E id \in PathIds : GetTask(id)
    \/ GetAllTasks
    \/ \E id \in PathIds : DeleteTask(id)
    \/ ClearAll
    \/ Tick

Spec == Init /\ [][Next]_vars

\* ------------------------------------------------------------ the claims
\* The step is a request that was handled (the clock's tick is none).
Handled == reqs' # reqs

\* The step is an update that the store accepted.
UpdateAccepted == Handled /\ last'.op = "update" /\ last'.status = 200

\* The step is a create that the store accepted.
CreateAccepted == Handled /\ last'.op = "create" /\ last'.status = 201

DtoFields == {"title", "description", "status", "priority", "dueDate"}

\* C1: the id of every stored task is the id it was created with, which is
\* the key it is stored under; no accepted update changes it.
C1_IdImmutable ==
    \A k \in DOMAIN tasks :
        /\ tasks[k].id = k
        /\ \E i \in 1..Len(created) : created[i].id = tasks[k].id

\* C2: every stored task's status is a member of TaskStatus and its priority
\* a member of TaskPriority, also after a body with a null status or priority.
C2_EnumMembers ==
    \A k \in DOMAIN tasks :
        /\ IsWord(tasks[k].status) /\ tasks[k].status.w \in TaskStatus
        /\ IsWord(tasks[k].priority) /\ tasks[k].priority.w \in TaskPriority

\* C3: an accepted update leaves every DTO field that its body does not
\* carry as it was, in the stored task and in the task returned.
C3_AbsentFieldsKept ==
    [][ UpdateAccepted =>
          \A f \in DtoFields :
              last'.body[f] = Absent =>
                  /\ tasks'[last'.id][f] = tasks[last'.id][f]
                  /\ last'.data[f] = tasks[last'.id][f] ]_vars

C3_Witness ==
    /\ last.op = "update" /\ last.status = 200
    /\ last.body.status # Absent
    /\ last.body.title = Absent /\ tasks[last.id].title = sanitizeText(Markup)
    /\ last.body.dueDate = Absent /\ tasks[last.id].dueDate = DateAt(today)

\* C4, as claimed: every accepted update makes updatedAt strictly greater,
\* also with no clock tick since the task's last stamp.
C4_StrictlyGreater ==
    [][ UpdateAccepted =>
          tasks'[last'.id].updatedAt.d > tasks[last'.id].updatedAt.d ]_vars

\* C4, amended: an accepted update stamps updatedAt with the clock's reading,
\* which is never before the task's updatedAt, is after it when the clock
\* ticked since that stamp, and is equal to it when the clock did not.
C4_StampedWithClock ==
    [][ UpdateAccepted =>
          /\ tasks'[last'.id].updatedAt = DateAt(clock)
          /\ tasks'[last'.id].updatedAt.d >= tasks[last'.id].updatedAt.d
          /\ (tasks'[last'.id].updatedAt.d > tasks[last'.id].updatedAt.d)
               <=> (clock > tasks[last'.id].updatedAt.d) ]_vars

C4_Witness ==
    /\ last.op = "update" /\ last.status = 200
    /\ \E i \in 1..Len(created) :
          /\ created[i].id = last.id
          /\ tasks[last.id].updatedAt.d > created[i].createdAt.d

\* C5: the createdAt of every stored task is the value stamped when the task
\* was created; no accepted update changes it.
C5_CreatedAtKept ==
    \A i \in 1..Len(created) :
        created[i].id \in DOMAIN tasks =>
            tasks[created[i].id].createdAt = created[i].createdAt

\* C6: when a create or update whose body carries a dueDate (null included)
\* is accepted, the dueDate of the stored task, if it has one, is a date on
\* or after the day of acceptance and at most 10 years after the acceptance.
C6_DueDateWindow ==
    [][ (CreateAccepted \/ UpdateAccepted) /\ last'.body.dueDate # Absent =>
          LET due == last'.data.dueDate
          IN due # Absent =>
                /\ IsDate(due)
                /\ StartOfDay(due.d) >= StartOfDay(clock)
                /\ due.d <= clock + TenYears ]_vars

\* C7: no two creates return the same id, also when the earlier task has
\* since been deleted or cleared.
C7_IdsUnique ==
    \A i, j \in 1..Len(created) : i # j => created[i].id # created[j].id

C7_Witness ==
    /\ Len(created) >= 2
    /\ created[1].id \in deleted
    /\ created[2].id \in DOMAIN tasks

\* C8, as claimed: an accepted create stores and returns status pending when
\* the body carries no status, priority medium when it carries no priority,
\* and the body's status and priority otherwise.
C8_DefaultsWhenOmitted ==
    [][ CreateAccepted =>
          /\ last'.data.status =
                (IF last'.body.status = Absent THEN PENDING ELSE last'.body.status)
          /\ last'.data.priority =
                (IF last'.body.priority = Absent THEN MEDIUM ELSE last'.body.priority) ]_vars

\* C8, amended: an accepted create stores and returns status pending when the
\* body carries no status or a null status, priority medium when it carries
\* no priority or a null priority, and the body's status and priority otherwise.
C8_DefaultsWhenOmittedOrNull ==
    [][ CreateAccepted =>
          /\ last'.data.status =
                (IF last'.body.status \in {Absent, Null} THEN PENDING ELSE last'.body.status)
          /\ last'.data.priority =
                (IF last'.body.priority \in {Absent, Null} THEN MEDIUM ELSE last'.body.priority)
          /\ tasks'[last'.data.id] = last'.data ]_vars

C8_Witness ==
    /\ last.op = "create" /\ last.status = 201
    /\ last.body.status = Word("completed") /\ last.data.status = Word("completed")
    /\ last.body.priority = Word("high") /\ tasks[last.data.id].priority = Word("high")

\* C9: an id that was deleted is not found by a get, and stays not found
\* after every later create, update and delete.
C9_DeletedStaysGone ==
    /\ \A id \in deleted : id \notin DOMAIN tasks
    /\ (last.op = "get" /\ last.id \in deleted) => last.status = 404

C9_Witness ==
    /\ last.op = "get" /\ last.id \in deleted /\ last.status = 404
    /\ Len(created) >= 1

\* C10: a create or update whose body or path id fails validation is answered
\* 400 and leaves the task collection as it was, and so does every request
\* answered with 400.
C10_RejectedLeavesStore ==
    [][ /\ (Handled /\ last'.status = 400) => tasks' = tasks
        /\ (Handled /\ last'.errors # <<>>) =>
              /\ last'.status = 400
              /\ tasks' = tasks ]_vars

C10_Witness ==
    /\ last.op = "update" /\ last.status = 400
    /\ last.id \in DOMAIN tasks
    /\ last.errors # <<>>

\* =========================================================================
\* The middleware functions, each called once on one input: `last` holds the
\* call (op), its argument (arg) and what it answered (out).
\* =========================================================================
Fill(c, n) == [ i \in 1..n |-> c ]
Garbage == Text(<<"s", "o", "o", "n">>)

WideTitles ==
    { Absent, Null, Num(7), Text(<<"a", "b">>), Plain, Markup,
      Text(Fill("a", TitleMaxLen)), Text(Fill("a", TitleMaxLen + 1)),
      Text(Fill("a", TitleMaxLen - 1) \o <<"&">>) }
WideDescriptions ==
    { Absent, Null, Num(7), Note, Text(Fill("d", DescriptionMaxLen + 1)) }
WideStatuses == { Absent, Null, Word("completed"), Word("bogus") }
WidePriorities == { Absent, Null, Word("high"), Word("bogus") }
WideDueDates ==
    { Absent, Null, Garbage, DateStr(yesterday), DateStr(today),
      DateStr(StartClock + TenYears + 1) }

WideBodies ==
    { Body([title |-> t, description |-> d, status |-> s, priority |-> p, dueDate |-> due]) :
        t \in WideTitles, d \in WideDescriptions, s \in WideStatuses,
        p \in WidePriorities, due \in WideDueDates }

Call(op, arg, out) == [ op |-> op, arg |-> arg, out |-> out ]

InitCalls ==
    /\ tasks = << >>
    /\ clock \in StartClock..MaxClock
    /\ created = << >>
    /\ deleted = {}
    /\ reqs = 0
    /\ last = Call("none", Null, Null)
    /\ handlers = [ r \in Slots |-> IdleHandler ]

\* What a validation middleware answers: the errorHandler's response to the
\* ValidationError it throws, or next() with the body it rewrote.
Thrown(errors) == errorHandler(ValidationError(errors))
Passed(body) == [ next |-> body ]

\* validateCreateTask, called on a body
CallValidateCreateTask(body) ==
    /\ last.op = "none"
    /\ last' = Call("validateCreateTask", body,
                    IF HasErrors(validateCreateTaskErrors(body, clock))
                    THEN Thrown(validateCreateTaskErrors(body, clock))
                    ELSE Passed(validateCreateTaskBody(body)))
    /\ UNCHANGED <<tasks, clock, created, deleted, reqs, handlers>>

\* The exceptions that reach errorHandler and are not ValidationErrors: what
\* express.json() raises on a malformed or oversized body (it sets
\* statusCode), and what a controller's catch block passes to next().
Exceptions ==
    { ErrorObject(m, sc, e, st) :
        m \in { Word(""), Word("Unexpected token } in JSON at position 12"),
                Word("Cannot read properties of undefined (reading 'id')") },
        sc \in { Absent, Num(400), Num(413) },
        e \in { Absent, Array(<<>>) },
        st \in { Absent, Word("SyntaxError: ... at parse (body-parser/lib/types/json.js)"),
                 Word("TypeError: ... at TaskStore.updateTask (task.store.ts)") } }

\* errorHandler, called on an exception
CallErrorHandler(err) ==
    /\ last.op = "none"
    /\ last' = Call("errorHandler", err, errorHandler(err))
    /\ UNCHANGED <<tasks, clock, created, deleted, reqs, handlers>>

\* POST /api/tasks, as the first request the server handles
CallPostTask(body) ==
    /\ last.op = "none"
    /\ PostTask(body)

Script == <<"<", "s", "c", "r", "i", "p", "t", ">", "x", "<", "/", "s", "c", "r", "i", "p", "t", ">">>

\* Texts for the sanitizer: a word, an ampersand or an element, after nothing,
\* a space or a long run of letters, and before nothing, a space or a quote.
SanitizerTexts ==
    { Text(pre \o mid \o post) :
        pre \in { <<>>, <<" ">>, Fill("a", TitleMaxLen - 20) },
        mid \in { Plain.s, <<"&">>, <<"<", "i", ">", "x", "<", "/", "i", ">">>, Script },
        post \in { <<>>, <<" ">>, <<"\"">> } }

\* sanitizeText, called on a text
CallSanitizeText(text) ==
    /\ last.op = "none"
    /\ last' = Call("sanitizeText", text, sanitizeText(text))
    /\ UNCHANGED <<tasks, clock, created, deleted, reqs, handlers>>

\* validateUpdateTask, called on a body
CallValidateUpdateTask(body) ==
    /\ last.op = "none"
    /\ last' = Call("validateUpdateTask", body,
                    IF HasErrors(validateUpdateTaskErrors(body, clock))
                    THEN Thrown(validateUpdateTaskErrors(body, clock))
                    ELSE Passed(validateUpdateTaskBody(body)))
    /\ UNCHANGED <<tasks, clock, created, deleted, reqs, handlers>>

\* The instants a due date can name: from the epoch to a day past the window.
DueInstants == 0..(MaxClock + TenYears + TicksPerDay)

\* validateDueDate, called on a string that parses to the instant d
CallValidateDueDate(d) ==
    /\ last.op = "none"
    /\ last' = Call("validateDueDate", DateStr(d), validateDueDate(DateStr(d), clock))
    /\ UNCHANGED <<tasks, clock, created, deleted, reqs, handlers>>

NextCalls ==
    \/ \E body \in WideBodies : CallValidateCreateTask(body)
    \/ \E d \in DueInstants : CallValidateDueDate(d)
    \/ \E body \in WideBodies : CallValidateUpdateTask(body)
    \/ \E text \in SanitizerTexts : CallSanitizeText(text)
    \/ \E body \in WideBodies : CallPostTask(body)
    \/ \E err \in Exceptions : CallErrorHandler(err)

SpecCalls == InitCalls /\ [][NextCalls]_vars

\* The validator of a DTO field, on the field's value.
FieldErrors(f, v, now) ==
    CASE f = "title" -> validateTitle(v)
      [] f = "description" -> validateDescription(v)
      [] f = "status" -> validateStatus(v)
      [] f = "priority" -> validatePriority(v)
      [] f = "dueDate" -> validateDueDate(v, now)

FieldOrder == <<"title", "description", "status", "priority", "dueDate">>

FieldsOf(errors) == [ i \in 1..Len(errors) |-> errors[i].field ]

IdRoutes == {"get", "update", "delete"}

\* The canonical text of a version-4 UUID.
CanonicalUuid(id) == IsUuid(id) /\ id.ver = UuidVersion

\* C12: a get, update or delete whose path id is not a canonical UUID is
\* answered with a validation failure whose only error is for the field id,
\* and the repository is left as it was, whatever the body of an update.
C12_BadIdOnlyIdError ==
    [][ (Handled /\ last'.op \in IdRoutes /\ ~CanonicalUuid(last'.id)) =>
            /\ last'.status = 400
            /\ FieldsOf(last'.errors) = <<"id">>
            /\ last'.data = Null
            /\ tasks' = tasks
            /\ deleted' = deleted ]_vars

C12_Witness ==
    /\ last.op = "update"
    /\ ~CanonicalUuid(last.id)
    /\ FieldsOf(last.errors) = <<"id">>
    /\ tasks # << >>

\* =========================================================================
\* errorHandler (specification SpecCalls)
\* =========================================================================
\* C13: every failure that is not a validation failure is answered with 500
\* and the generic message: the response is the same whatever the message,
\* the stack and the status of the exception.
C13_GenericBody ==
    last.op = "errorHandler" =>
        last.out = [ status |-> 500,
                     json |-> [ error |-> [ message |-> "Internal Server Error",
                                            statusCode |-> 500 ] ] ]

\* =========================================================================
\* Stored text (specification Spec)
\* =========================================================================
TextFields == {"title", "description"}

Chars(s) == { s[i] : i \in 1..Len(s) }

\* A text as the sanitizer leaves one: no tag delimiter, no space at its ends.
Sanitized(v) ==
    /\ Chars(v.s) \cap {"<", ">"} = {}
    /\ Trim(v.s) = v.s

\* C14: the title and the description of every stored task are sanitized
\* text: a create or an update that writes one stores what the sanitizer
\* returns for the text of the request, never the text itself.
C14_StoresSanitizerOutput ==
    [][ /\ (CreateAccepted \/ UpdateAccepted) =>
              \A f \in TextFields :
                  IsText(last'.body[f]) =>
                      /\ last'.data[f] = sanitizeText(last'.body[f])
                      /\ \E k \in DOMAIN tasks' : tasks'[k] = last'.data
        /\ \A k \in DOMAIN tasks' : \A f \in TextFields :
              IsText(tasks'[k][f]) => Sanitized(tasks'[k][f]) ]_vars

C14_Witness ==
    /\ last.op = "update"
    /\ last.status = 200
    /\ last.body.title = Markup
    /\ last.body.description = Note
    /\ tasks[last.id].title # Markup
    /\ tasks[last.id].description # Note

\* =========================================================================
\* Stored titles (specification SpecCalls)
\* =========================================================================
\* C15: the title of every stored task is not empty and is 3 to 100
\* characters long, as it is stored: sanitized and trimmed.
C15_StoredTitleLength ==
    \A k \in DOMAIN tasks :
        /\ IsText(tasks[k].title)
        /\ Len(tasks[k].title.s) >= TitleMinLen
        /\ Len(tasks[k].title.s) <= TitleMaxLen

\* =========================================================================
\* The sanitizer (specification SpecCalls)
\* =========================================================================
\* C16: what the sanitizer returns for a title with markup tags has no tag
\* in it, and what it returns for a title of at most 100 characters is at
\* most 100 characters long.
C16_NoTagsNoLonger ==
    last.op = "sanitizeText" =>
        /\ Chars(last.out.s) \cap {"<", ">"} = {}
        /\ Len(last.arg.s) <= TitleMaxLen => Len(last.out.s) <= TitleMaxLen

\* =========================================================================
\* Updates that carry no field (specification Spec)
\* =========================================================================
\* The bodies that carry none of the five fields of the update DTO.
NoFieldBodies == { body \in Bodies : \A f \in DtoFields : body[f] = Absent }

\* C17: an update whose body carries none of title, description, status,
\* priority and dueDate is answered with a validation failure of exactly one
\* error, for the field body, whether the task of the path id exists or not.
C17_EmptyUpdateRejected ==
    [][ \A id \in PathIds, body \in NoFieldBodies :
            (CanonicalUuid(id) /\ PutTask(id, body)) =>
                /\ last'.status = 400
                /\ FieldsOf(last'.errors) = <<"body">>
                /\ tasks' = tasks ]_vars

C17_Witness ==
    /\ last.op = "update"
    /\ last.status = 400
    /\ FieldsOf(last.errors) = <<"body">>
    /\ last.id \in DOMAIN tasks

\* =========================================================================
\* Partial updates (specification SpecCalls)
\* =========================================================================
\* C18: on an update body that carries at least one field, only the
\* validators of the fields it carries run: there is an error for a field
\* exactly when the field is present and invalid, an omitted title is never
\* rejected, and the invalid present fields are all reported in one answer.
C18_OnlyPresentFieldsValidated ==
    last.op = "validateUpdateTask" =>
        LET PresentAndInvalid(f) ==
                /\ last.arg[f] # Absent
                /\ FieldErrors(f, last.arg[f], clock) # <<>>
            failing == SelectSeq(FieldOrder, PresentAndInvalid)
        IN (\E f \in DtoFields : last.arg[f] # Absent) =>
              IF failing = <<>>
              THEN DOMAIN last.out = {"next"}
              ELSE /\ DOMAIN last.out = {"status", "json"}
                   /\ last.out.status = 400
                   /\ FieldsOf(last.out.json.errors) = failing

C18_Witness ==
    /\ last.op = "validateUpdateTask"
    /\ last.arg.title = Absent
    /\ last.arg.description = Absent
    /\ DOMAIN last.out = {"status", "json"}
    /\ FieldsOf(last.out.json.errors) = <<"status", "priority", "dueDate">>

\* =========================================================================
\* Ids that resolve to no task (specification Spec)
\* =========================================================================
\* C19: a get, update or delete whose path id is well formed and is the id
\* of no live task (the body of the update being valid) is answered with 404
\* and a message that names the requested id; the repository reports the
\* missing task as a value, raises nothing and stays as it was.
C19_UnknownIdNotFound ==
    [][ ( /\ Handled
          /\ last'.op \in IdRoutes
          /\ CanonicalUuid(last'.id)
          /\ last'.id \notin DOMAIN tasks
          /\ last'.errors = <<>> ) =>
            /\ last'.status = 404
            /\ last'.data = NotFoundMessage(last'.id)
            /\ \E i \in 1..Len(last'.data.message) : last'.data.message[i] = last'.id
            /\ tasks' = tasks
            /\ deleted' = deleted ]_vars

C19_Witness ==
    /\ last.op = "update"
    /\ last.status = 404
    /\ last.id \in deleted

\* =========================================================================
\* The due date window (specification SpecCalls)
\* =========================================================================
\* C20: validateDueDate accepts a date that parses exactly when its calendar
\* day is not before the current calendar day and it is not more than ten
\* years after now: a date of today is accepted at any time of the day, and
\* a date of an earlier day gets the past-date error.
C20_DueDateByCalendarDay ==
    last.op = "validateDueDate" =>
        LET due == last.arg.iso
            dueDay == due \div TicksPerDay
            currentDay == clock \div TicksPerDay
        IN /\ (last.out = <<>>) <=> (dueDay >= currentDay /\ due <= clock + TenYears)
           /\ dueDay = currentDay => last.out = <<>>
           /\ dueDay < currentDay =>
                 last.out = Err("dueDate", "Due date must be today or in the future")

C20_Witness ==
    /\ last.op = "validateDueDate"
    /\ last.arg.iso < clock
    /\ last.arg.iso \div TicksPerDay = clock \div TicksPerDay
    /\ last.out = <<>>

\* =========================================================================
\* The stamps of a task (specification Spec)
\* =========================================================================
\* C21: the createdAt and the updatedAt of every task that create returns
\* are the same instant, also when the clock advances while create runs.
C21_CreatedEqualsUpdated ==
    (last.op = "create" /\ last.status = 201) =>
        last.data.createdAt = last.data.updatedAt

\* C22: in every reachable state of the store, whatever creates and updates
\* were accepted, the updatedAt of every stored task is an instant not
\* before its createdAt.
C22_UpdatedNotBeforeCreated ==
    \A k \in DOMAIN tasks :
        /\ IsDate(tasks[k].createdAt)
        /\ IsDate(tasks[k].updatedAt)
        /\ tasks[k].updatedAt.d >= tasks[k].createdAt.d

\* =========================================================================
\* What the store answers for an id it does not hold (specification Spec)
\* =========================================================================
\* C23: delete answers true (the route answers 200) exactly when a live task
\* with the id existed before the call and false (404) otherwise, so the
\* second delete of an id answers false; update of an id with no live task
\* answers absent (404); in both not-found cases the collection is unchanged.
C23_DeleteTrueIffLive ==
    [][ /\ (Handled /\ last'.op = "delete" /\ CanonicalUuid(last'.id)) =>
              /\ (last'.status = 200) <=> (last'.id \in DOMAIN tasks)
              /\ (last'.status = 404) <=> (last'.id \notin DOMAIN tasks)
              /\ last'.id \notin DOMAIN tasks'
              /\ last'.id \notin DOMAIN tasks => tasks' = tasks /\ deleted' = deleted
        /\ ( /\ Handled /\ last'.op = "update" /\ CanonicalUuid(last'.id)
             /\ last'.errors = <<>> /\ last'.id \notin DOMAIN tasks ) =>
              /\ last'.status = 404
              /\ tasks' = tasks ]_vars

C23_Witness ==
    /\ last.op = "delete"
    /\ last.status = 404
    /\ last.id \in deleted

\* =========================================================================
\* Requests in flight (specification SpecSteps). A request is received on a
\* connection while others are still unanswered; when its body has been read
\* the router runs its middleware chain: validateTaskId, validateUpdateTask,
\* the controller, the store. Every function of the chain is synchronous and
\* hands over with a plain call of next(), so the chain is one JavaScript
\* callback, and JavaScript runs a callback to completion before the next.
\* =========================================================================
StepBodies ==
    { Body([title |-> Plain]),
      Body([status |-> Word("completed")]),
      Body(<< >>) }

StepOps == {"create", "update", "delete"}

\* The positions of a chain that has started and has not answered.
ChainPcs ==
    { "validateCreateTask", "createTask", "validateTaskId", "validateUpdateTask",
      "updateTask.get", "updateTask.set", "deleteTask" }

InChain(r) == handlers[r].pc \in ChainPcs

\* A scheduler that runs a step of a chain while another chain is under way.
CanRun_always(r) == TRUE

\* Run to completion: a step of the chain of r runs only when no other
\* chain is under way.
CanRun(r) == \A q \in Slots \ {r} : ~InChain(q)

InitSteps ==
    /\ tasks = << >>
    /\ clock = StartClock
    /\ created = << >>
    /\ deleted = {}
    /\ reqs = 0
    /\ last = Response("none", Null, 0, <<>>, Absent, Null)
    /\ handlers = [ r \in Slots |-> IdleHandler ]

\* The creates received and not yet stored.
CreatesInFlight == { r \in Slots : handlers[r].op = "create" }

\* A request is received and its body parsed (express.json); r is the first
\* connection that is free.
Receive(r, op, id, body) ==
    /\ handlers[r].pc = "idle"
    /\ \A q \in 1..(r - 1) : handlers[q].pc # "idle"
    /\ reqs < MaxReqs
    /\ op = "create" => Len(created) + Cardinality(CreatesInFlight) < MaxIds
    /\ reqs' = reqs + 1
    /\ handlers' = [handlers EXCEPT ![r] =
                      [ IdleHandler EXCEPT !.pc = "pending", !.op = op,
                          !.id = IF op = "create" THEN Null ELSE id,
                          !.raw = IF op = "delete" THEN Absent ELSE body,
                          !.body = IF op = "delete" THEN Absent ELSE body ]]
    /\ UNCHANGED <<tasks, clock, created, deleted, last>>

\* What express.json() raises for a body it cannot parse and for a body over
\* its size limit: http-errors with statusCode 400 and 413.
ParserErrors ==
    { ErrorObject(Word("Unexpected token } in JSON at position 12"), Num(400), Absent, Absent),
      ErrorObject(Word("request entity too large"), Num(413), Absent, Absent) }

\* A request is received whose body express.json() rejects: the error goes
\* past the routes, so that no path id is read, to errorHandler, which answers.
ReceiveUnparsed(op, err) ==
    /\ reqs < MaxReqs
    /\ \E r \in Slots : handlers[r].pc = "idle"
    /\ reqs' = reqs + 1
    /\ last' = Response(op, Null, errorHandler(err).status, <<>>, Absent, errorHandler(err).json)
    /\ UNCHANGED <<tasks, clock, created, deleted, handlers>>

\* The router starts the chain of the request on r.
Dispatch(r) ==
    /\ handlers[r].pc = "pending"
    /\ CanRun(r)
    /\ handlers' = [handlers EXCEPT ![r] =
                      [ handlers[r] EXCEPT
                          !.pc = IF handlers[r].op = "create" THEN "validateCreateTask"
                                 ELSE "validateTaskId",
                          !.begun = tasks ]]
    /\ UNCHANGED <<tasks, clock, created, deleted, reqs, last>>

\* The chain of r answers: res.status(...).json(...), or the errorHandler.
Answer(r, response) ==
    /\ last' = response
    /\ handlers' = [handlers EXCEPT ![r] = IdleHandler]

\* The chain of r goes on to its next function.
Goto(r, pc, body, existing) ==
    /\ handlers' = [handlers EXCEPT ![r] =
                      [ handlers[r] EXCEPT !.pc = pc, !.body = body, !.existing = existing ]]
    /\ UNCHANGED last

\* A route for PUT that goes from validateTaskId straight to the controller.
AfterValidateTaskId_skipsBody(op) ==
    IF op = "update" THEN "updateTask.get" ELSE "deleteTask"

\* What follows validateTaskId in the chain of the route
AfterValidateTaskId(op) ==
    IF op = "update" THEN "validateUpdateTask" ELSE "deleteTask"

RunValidateTaskId(r) ==
    LET h == handlers[r]
    IN /\ h.pc = "validateTaskId"
       /\ CanRun(r)
       /\ IF validateTaskIdErrors(h.id) # <<>>
          THEN Answer(r, ValidationFailed(h.op, h.id, validateTaskIdErrors(h.id)))
          ELSE Goto(r, AfterValidateTaskId(h.op), h.body, h.existing)
       /\ UNCHANGED <<tasks, clock, created, deleted, reqs>>

RunValidateUpdateTask(r) ==
    LET h == handlers[r]
    IN /\ h.pc = "validateUpdateTask"
       /\ CanRun(r)
       /\ IF HasErrors(validateUpdateTaskErrors(h.body, clock))
          THEN Answer(r, ValidationFailed("update", h.id, validateUpdateTaskErrors(h.body, clock)))
          ELSE Goto(r, "updateTask.get", validateUpdateTaskBody(h.body), h.existing)
       /\ UNCHANGED <<tasks, clock, created, deleted, reqs>>

RunValidateCreateTask(r) ==
    LET h == handlers[r]
    IN /\ h.pc = "validateCreateTask"
       /\ CanRun(r)
       /\ IF HasErrors(validateCreateTaskErrors(h.body, clock))
          THEN Answer(r, ValidationFailed("create", Null, validateCreateTaskErrors(h.body, clock)))
          ELSE Goto(r, "createTask", validateCreateTaskBody(h.body), h.existing)
       /\ UNCHANGED <<tasks, clock, created, deleted, reqs>>

\* TaskStore.updateTask: const existingTask = this.tasks.get(id)
RunUpdateTaskGet(r) ==
    LET h == handlers[r]
    IN /\ h.pc = "updateTask.get"
       /\ CanRun(r)
       /\ IF h.id \notin DOMAIN tasks
          THEN Answer(r, NotFound("update", h.id))
          ELSE Goto(r, "updateTask.set", h.body, tasks[h.id])
       /\ UNCHANGED <<tasks, clock, created, deleted, reqs>>

\* TaskStore.updateTask: this.tasks.set(id, updatedTask), and the 200
RunUpdateTaskSet(r) ==
    LET h == handlers[r]
        updatedTask == updateTask(h.existing, h.body, clock)
    IN /\ h.pc = "updateTask.set"
       /\ CanRun(r)
       /\ tasks' = MapSet(tasks, h.id, updatedTask)
       /\ Answer(r, Response("update", h.id, 200, <<>>, h.body, updatedTask))
       /\ UNCHANGED <<clock, created, deleted, reqs>>

\* TaskStore.deleteTask and the controller's answer
RunDeleteTask(r) ==
    LET h == handlers[r]
    IN /\ h.pc = "deleteTask"
       /\ CanRun(r)
       /\ IF ~MapDeleted(tasks, h.id)
          THEN /\ Answer(r, NotFound("delete", h.id))
               /\ UNCHANGED <<tasks, deleted>>
          ELSE /\ tasks' = MapDelete(tasks, h.id)
               /\ deleted' = deleted \cup {h.id}
               /\ Answer(r, Response("delete", h.id, 200, <<>>, Absent, Null))
       /\ UNCHANGED <<clock, created, reqs>>

\* TaskStore.createTask and the controller's 201
RunCreateTask(r) ==
    LET h == handlers[r]
    IN /\ h.pc = "createTask"
       /\ CanRun(r)
       /\ \E later \in clock..MaxClock :
          LET newTask == createTask(h.body, clock, later)
          IN /\ clock' = later
             /\ tasks' = MapSet(tasks, newTask.id, newTask)
             /\ created' = Append(created, [id |-> newTask.id, createdAt |-> newTask.createdAt])
             /\ Answer(r, Response("create", Null, 201, <<>>, h.body, newTask))
       /\ UNCHANGED <<deleted, reqs>>

NextSteps ==
    \/ \E r \in Slots, op \in StepOps, id \in PathIds, body \in StepBodies :
          Receive(r, op, id, body)
    \/ \E op \in {"create", "update"}, err \in ParserErrors : ReceiveUnparsed(op, err)
    \/ \E r \in Slots : Dispatch(r)
    \/ \E r \in Slots : RunValidateTaskId(r)
    \/ \E r \in Slots : RunValidateUpdateTask(r)
    \/ \E r \in Slots : RunValidateCreateTask(r)
    \/ \E r \in Slots : RunUpdateTaskGet(r)
    \/ \E r \in Slots : RunUpdateTaskSet(r)
    \/ \E r \in Slots : RunDeleteTask(r)
    \/ \E r \in Slots : RunCreateTask(r)

SpecSteps == InitSteps /\ [][NextSteps]_vars

\* C24: whatever the interleaving of the requests in flight, the validation
\* and the mutation of each request run as one uninterrupted step: no two
\* chains are under way at once, the collection a chain works on is the one
\* it started with, so that its effect is that of the request applied alone
\* to that collection, and the task an update writes over is the one it read.
C24_ChainUninterrupted ==
    [][ /\ Cardinality({ r \in Slots : InChain(r)' }) <= 1
        /\ \A r \in Slots :
              /\ InChain(r)' => tasks' = handlers'[r].begun
              /\ handlers'[r].pc = "updateTask.set" =>
                    /\ handlers'[r].id \in DOMAIN tasks'
                    /\ handlers'[r].existing = tasks'[handlers'[r].id]
              /\ (handlers[r].pc = "updateTask.set" /\ handlers'[r].pc = "idle") =>
                    tasks' = MapSet(handlers[r].begun, handlers[r].id,
                                    updateTask(handlers[r].begun[handlers[r].id],
                                               handlers[r].body, clock))
              /\ (handlers[r].pc = "deleteTask" /\ handlers'[r].pc = "idle") =>
                    tasks' = MapDelete(handlers[r].begun, handlers[r].id) ]_vars

C24_Witness ==
    \E r, q \in Slots :
        /\ handlers[r].pc = "updateTask.set"
        /\ handlers[q].pc = "pending"
        /\ handlers[q].op = "update"
        /\ handlers[q].id = handlers[r].id
        /\ handlers[q].body # handlers[r].body

\* =========================================================================
\* Every request is answered (specification LiveSteps: SpecSteps, where a
\* chain that can take its next step does take it)
\* =========================================================================
ChainStep(r) ==
    \/ Dispatch(r)
    \/ RunValidateTaskId(r)
    \/ RunValidateUpdateTask(r)
    \/ RunValidateCreateTask(r)
    \/ RunUpdateTaskGet(r)
    \/ RunUpdateTaskSet(r)
    \/ RunDeleteTask(r)
    \/ RunCreateTask(r)

LiveSteps == SpecSteps /\ \A r \in Slots : WF_vars(ChainStep(r))

\* The statuses of the classified answers.
ClassifiedStatuses == {200, 201, 400, 404, 500}

\* C25: every request to a task route is in the end answered, once, and the
\* answer is a success (200 or 201), a 400, a 404 or a 500.
C25_AnsweredOnceClassified ==
    /\ [](last.op # "none" => last.status \in ClassifiedStatuses)
    /\ \A r \in Slots : (handlers[r].pc = "pending") ~> (handlers[r].pc = "idle")

\* =========================================================================
\* The other tasks (specification Spec)
\* =========================================================================
\* The step is a delete that the store accepted.
DeleteAccepted == Handled /\ last'.op = "delete" /\ last'.status = 200

\* C26: an accepted update or delete of one id leaves every other stored
\* task as it was in every field; an update leaves the set of stored ids as
\* it was, a delete takes that one id out of it and no other.
C26_OthersUntouched ==
    [][ /\ UpdateAccepted =>
              /\ DOMAIN tasks' = DOMAIN tasks
              /\ \A k \in DOMAIN tasks \ {last'.id} : tasks'[k] = tasks[k]
        /\ DeleteAccepted =>
              /\ last'.id \in DOMAIN tasks
              /\ DOMAIN tasks' = DOMAIN tasks \ {last'.id}
              /\ \A k \in DOMAIN tasks' : tasks'[k] = tasks[k] ]_vars

C26_Witness ==
    /\ last.op = "update"
    /\ last.status = 200
    /\ Cardinality(DOMAIN tasks) = 2

\* =========================================================================
\* The order of the checks of an update (specification SpecSteps)
\* =========================================================================
\* C27: an update is checked for its path id, then for its body, then for
\* the existence of the task: with a well-formed id of no task and a body
\* that is invalid or empty the answer is 400 and not 404, and 404 is the
\* answer only when the id and the body have both passed validation.
C27_IdThenBodyThenExistence ==
    [][ \A r \in Slots :
          (handlers[r].op = "update" /\ InChain(r) /\ handlers'[r].pc = "idle") =>
              LET h == handlers[r]
                  idOk == CanonicalUuid(h.id)
                  bodyOk == validateUpdateTaskErrors(h.raw, clock) = <<>>
              IN /\ ~idOk => (last'.status = 400 /\ FieldsOf(last'.errors) = <<"id">>)
                 /\ (idOk /\ ~bodyOk) =>
                       (last'.status = 400 /\ last'.errors = validateUpdateTaskErrors(h.raw, clock))
                 /\ last'.status = 404 => (idOk /\ bodyOk /\ h.id \notin DOMAIN tasks)
                 /\ (idOk /\ bodyOk /\ h.id \notin DOMAIN tasks) => last'.status = 404 ]_vars

C27_Witness ==
    /\ last.op = "update"
    /\ last.status = 400
    /\ CanonicalUuid(last.id)
    /\ last.id \notin DOMAIN tasks
    /\ last.errors = BodyFieldMissing

\* =========================================================================
\* The ids create assigns (specification Spec)
\* =========================================================================
\* C28: every id that create assigns passes validateTaskId, so that every
\* live task can be reached through the routes: a get with the id create
\* returned, for a task not deleted since, is not rejected for its id and
\* returns that task.
C28_CreatedIdsFetchable ==
    [][ /\ \A i \in 1..Len(created') : validateTaskIdErrors(created'[i].id) = <<>>
        /\ \A k \in DOMAIN tasks' : validateTaskIdErrors(k) = <<>>
        /\ CreateAccepted => last'.data.id = created'[Len(created')].id
        /\ (Handled /\ last'.op = "get" /\ last'.id \in DOMAIN tasks) =>
              /\ last'.status = 200
              /\ last'.errors = <<>>
              /\ last'.data = tasks[last'.id] ]_vars

C28_Witness ==
    /\ last.op = "get"
    /\ last.status = 200
    /\ Len(created) >= 1
    /\ last.id = created[1].id
    /\ last.data = tasks[created[1].id]

====
